---------------------------- MODULE Spec2Model ----------------------------
(***************************************************************************)
(* RFC 6376 tag-list lexer/parser (lexer.go), the field map builder        *)
(* (NewMap) and the DKIM key validator (NewDkimKey).                       *)
(*                                                                         *)
(* Strings are sequences of bytes (0..255).  Go byte offsets are 0-based,  *)
(* so the byte at offset p of s is s[p + 1].                               *)
(***************************************************************************)
EXTENDS Integers, Sequences, FiniteSets, TLC

(***************************************************************************)
(* Bytes and runes the code names.                                         *)
(***************************************************************************)
eof == -1
RuneError == 65533
HT == 9
LF == 10
CR == 13
SP == 32
BANG == 33
STAR == 42
COLON == 58
SEMI == 59
EQUALS == 61
TILDE == 126
UNDERSCORE == 95

Upper == 65..90
Lower == 97..122
Digit == 48..57

\* " \t"
WSP == {SP, HT}
\* "\r\n"
CRLF == <<CR, LF>>
\* "abcdefghijklmnopqrstuvwxyzABCDEFGHIJKLMNOPQRSTUVWXYZ0123456789_"
TagRunes == Lower \cup Upper \cup Digit \cup {UNDERSCORE}

MalformedFws == "malformed folding whitespace"
ExpectingAlpha == "expecting alpha character in tag"
ExpectingEquals == "expecting '='"

(***************************************************************************)
(* Go values.                                                              *)
(***************************************************************************)
\* l.input[from:to]
Slice(s, from, to) == SubSeq(s, from + 1, to)

\* strings.HasPrefix(s[from:], prefix)
HasPrefixAt(s, from, prefix) ==
    /\ from >= 0
    /\ from + Len(prefix) <= Len(s)
    /\ Slice(s, from, from + Len(prefix)) = prefix

\* the nil error, a ParseError value, and the error errors.New makes
nil == [typ |-> "nil"]
ParseError(message, pos) == [typ |-> "ParseError", Message |-> message, Pos |-> pos]
errorsNew(message) == [typ |-> "errorString", Message |-> message]

\* a nil slice and a non-nil slice of Items
NilItems == [isNil |-> TRUE, elems |-> <<>>]
ItemSlice(elems) == [isNil |-> FALSE, elems |-> elems]

\* Item{}
ZeroItem == [Tag |-> <<>>, Value |-> <<>>, TagPos |-> 0, ValuePos |-> 0]

(***************************************************************************)
(* utf8.DecodeRuneInString(s[pos:]), for pos < len(s): the rune and its    *)
(* width; an invalid or truncated encoding is RuneError, width 1.          *)
(***************************************************************************)
IsCont(s, p) == p < Len(s) /\ s[p + 1] \in 128..191

\* DecodeRune giving an invalid or truncated encoding the width 0
DecodeRuneBadWidth0(s, pos) ==
    LET b0 == s[pos + 1]
        b1 == s[pos + 2]
        b2 == s[pos + 3]
        b3 == s[pos + 4]
        bad == [r |-> RuneError, width |-> 0]
    IN  IF b0 < 128 THEN [r |-> b0, width |-> 1]
        ELSE IF b0 \in 194..223 THEN
            IF IsCont(s, pos + 1)
            THEN [r |-> (b0 - 192) * 64 + (b1 - 128), width |-> 2]
            ELSE bad
        ELSE IF b0 \in 224..239 THEN
            IF /\ IsCont(s, pos + 1)
               /\ IsCont(s, pos + 2)
               /\ (b0 = 224 => b1 >= 160)
               /\ (b0 = 237 => b1 <= 159)
            THEN [r |-> (b0 - 224) * 4096 + (b1 - 128) * 64 + (b2 - 128), width |-> 3]
            ELSE bad
        ELSE IF b0 \in 240..244 THEN
            IF /\ IsCont(s, pos + 1)
               /\ IsCont(s, pos + 2)
               /\ IsCont(s, pos + 3)
               /\ (b0 = 240 => b1 >= 144)
               /\ (b0 = 244 => b1 <= 143)
            THEN [r |-> (b0 - 240) * 262144 + (b1 - 128) * 4096
                        + (b2 - 128) * 64 + (b3 - 128),
                  width |-> 4]
            ELSE bad
        ELSE bad

DecodeRune(s, pos) ==
    LET b0 == s[pos + 1]
        b1 == s[pos + 2]
        b2 == s[pos + 3]
        b3 == s[pos + 4]
        bad == [r |-> RuneError, width |-> 1]
    IN  IF b0 < 128 THEN [r |-> b0, width |-> 1]
        ELSE IF b0 \in 194..223 THEN
            IF IsCont(s, pos + 1)
            THEN [r |-> (b0 - 192) * 64 + (b1 - 128), width |-> 2]
            ELSE bad
        ELSE IF b0 \in 224..239 THEN
            IF /\ IsCont(s, pos + 1)
               /\ IsCont(s, pos + 2)
               /\ (b0 = 224 => b1 >= 160)
               /\ (b0 = 237 => b1 <= 159)
            THEN [r |-> (b0 - 224) * 4096 + (b1 - 128) * 64 + (b2 - 128), width |-> 3]
            ELSE bad
        ELSE IF b0 \in 240..244 THEN
            IF /\ IsCont(s, pos + 1)
               /\ IsCont(s, pos + 2)
               /\ IsCont(s, pos + 3)
               /\ (b0 = 240 => b1 >= 144)
               /\ (b0 = 244 => b1 <= 143)
            THEN [r |-> (b0 - 240) * 262144 + (b1 - 128) * 4096
                        + (b2 - 128) * 64 + (b3 - 128),
                  width |-> 4]
            ELSE bad
        ELSE bad

(***************************************************************************)
(* The lexer: operations on a lexer value l = [input, start, pos, width].  *)
(* An operation that also returns something yields a record with the new   *)
(* lexer in field l.  The history field backups counts the calls of        *)
(* backup() since the last call of next().                                 *)
(***************************************************************************)
NewLexer(input) ==
    [input |-> input, start |-> 0, pos |-> 0, width |-> 0, backups |-> 0]

next(l) ==
    IF l.pos >= Len(l.input)
    THEN [l |-> [l EXCEPT !.width = 0, !.backups = 0], r |-> eof]
    ELSE LET d == DecodeRune(l.input, l.pos)
         IN  [l |-> [l EXCEPT !.width = d.width, !.pos = l.pos + d.width,
                              !.backups = 0],
              r |-> d.r]

\* ignore() leaving start where it is
ignoreNothing(l) == l

ignore(l) == [l EXCEPT !.start = l.pos]

backup(l) == [l EXCEPT !.pos = l.pos - l.width, !.backups = l.backups + 1]

\* strings.IndexRune(valid, r) >= 0, valid given as its set of runes; eof and
\* RuneError are in no valid set the code uses
accept(l, valid) ==
    LET n == next(l)
    IN  IF n.r \in valid
        THEN [l |-> n.l, ok |-> TRUE]
        ELSE [l |-> backup(n.l), ok |-> FALSE]

RECURSIVE acceptRun(_, _)
acceptRun(l, valid) ==
    LET n == next(l)
    IN  IF n.r \in valid THEN acceptRun(n.l, valid) ELSE backup(n.l)

acceptTagRun(l) == acceptRun(l, TagRunes)

\* acceptOptionalFws accepting a single space or tab after the CRLF
acceptOptionalFwsOneWsp(l) ==
    LET l1 == acceptRun(l, WSP)
    IN  IF HasPrefixAt(l1.input, l1.pos, CRLF)
        THEN LET a == accept([l1 EXCEPT !.pos = l1.pos + 2], WSP)
             IN  IF a.ok
                 THEN [l |-> a.l, err |-> nil]
                 ELSE [l |-> backup(a.l), err |-> errorsNew(MalformedFws)]
        ELSE [l |-> l1, err |-> nil]

\* acceptOptionalFws consumes an optional folding whitespace
acceptOptionalFws(l) ==
    LET l1 == acceptRun(l, WSP)
    IN  IF HasPrefixAt(l1.input, l1.pos, CRLF)
        THEN LET a == accept([l1 EXCEPT !.pos = l1.pos + 2], WSP)
             IN  IF a.ok
                 THEN [l |-> acceptRun(a.l, WSP), err |-> nil]
                 ELSE [l |-> backup(a.l), err |-> errorsNew(MalformedFws)]
        ELSE [l |-> l1, err |-> nil]

\* skipOptionalFws without the call of ignore()
skipOptionalFwsNoIgnore(l) == acceptOptionalFws(l)

skipOptionalFws(l) ==
    LET a == acceptOptionalFws(l)
    IN  IF a.err # nil THEN a ELSE [l |-> ignore(a.l), err |-> nil]

IsAlpha(r) == ~((r < 97 \/ r > 122) /\ (r < 65 \/ r > 90))
IsValChar(r) == r # SEMI /\ r >= BANG /\ r <= TILDE

(***************************************************************************)
(* NewTagValue as a function of its input: what the call returns.          *)
(***************************************************************************)
\* the value loop from the lexer l on: the lexer, the error and the
\* whitespacePos it ends with
RECURSIVE ValueLoop(_)
ValueLoop(l) ==
    LET n == next(l)
        b == backup(n.l)
        a == acceptOptionalFws(b)
        m == next(a.l)
    IN  IF IsValChar(n.r) THEN ValueLoop(n.l)
        ELSE IF a.err # nil
        THEN [l |-> a.l, err |-> a.err, whitespacePos |-> b.pos]
        ELSE IF m.r = eof \/ m.r = SEMI
        THEN [l |-> m.l, err |-> nil, whitespacePos |-> b.pos]
        ELSE ValueLoop(m.l)

\* the tag-spec loop from the lexer l on, with its collected so far
RECURSIVE TagSpecLoop(_, _)
TagSpecLoop(l, its) ==
    LET s1 == skipOptionalFws(l)
        n == next(s1.l)
        t == acceptTagRun(n.l)
        s2 == skipOptionalFws(t)
        e == next(s2.l)
        s3 == skipOptionalFws(e.l)
        v == ValueLoop(s3.l)
        it == [Tag |-> Slice(t.input, t.start, t.pos),
               Value |-> Slice(v.l.input, v.l.start, v.whitespacePos),
               TagPos |-> t.start,
               ValuePos |-> v.l.start]
    IN  IF s1.err # nil THEN [items |-> NilItems, err |-> s1.err]
        ELSE IF n.r = eof THEN [items |-> ItemSlice(its), err |-> nil]
        ELSE IF ~IsAlpha(n.r)
        THEN [items |-> NilItems, err |-> ParseError(ExpectingAlpha, n.l.pos)]
        ELSE IF s2.err # nil THEN [items |-> NilItems, err |-> s2.err]
        ELSE IF e.r # EQUALS
        THEN [items |-> NilItems, err |-> ParseError(ExpectingEquals, e.l.pos)]
        ELSE IF s3.err # nil THEN [items |-> NilItems, err |-> s3.err]
        ELSE IF v.err # nil THEN [items |-> NilItems, err |-> v.err]
        ELSE TagSpecLoop(v.l, Append(its, it))

NewTagValue(input) == TagSpecLoop(NewLexer(input), <<>>)

(***************************************************************************)
(* Fields, annotations and the field map (NewMap).                         *)
(***************************************************************************)
\* Field{}: the value a map lookup of an absent tag yields
ZeroField ==
    [Item |-> ZeroItem, Index |-> 0, Duplicate |-> FALSE, Defined |-> FALSE,
     Errors |-> <<>>]

\* a nil map and a non-nil map of tag -> Field
NilMap == [isNil |-> TRUE, elems |-> <<>>]
FieldMap(elems) == [isNil |-> FALSE, elems |-> elems]

\* m[k], the zero Field for an absent key
Lookup(m, k) == IF k \in DOMAIN m.elems THEN m.elems[k] ELSE ZeroField

\* delete(m, k)
Delete(m, k) ==
    [m EXCEPT !.elems = [t \in (DOMAIN m.elems) \ {k} |-> m.elems[t]]]

\* NewMapLoop keeping the first occurrence of a tag instead of the last
RECURSIVE NewMapLoopFirstWins(_, _, _)
NewMapLoopFirstWins(fields, its, i) ==
    IF i >= Len(its) THEN fields
    ELSE LET it == its[i + 1]
             seen == it.Tag \in DOMAIN fields
             v == [Item |-> it, Index |-> i, Duplicate |-> seen, Defined |-> TRUE,
                   Errors |-> <<>>]
         IN  NewMapLoopFirstWins(fields @@ (it.Tag :> v), its, i + 1)

\* the body of the range loop of NewMap, from item i (0-based) on
RECURSIVE NewMapLoop(_, _, _)
NewMapLoop(fields, its, i) ==
    IF i >= Len(its) THEN fields
    ELSE LET it == its[i + 1]
             seen == it.Tag \in DOMAIN fields
             v == [Item |-> it, Index |-> i, Duplicate |-> seen, Defined |-> TRUE,
                   Errors |-> <<>>]
         IN  NewMapLoop((it.Tag :> v) @@ fields, its, i + 1)

\* NewMap, given what NewTagValue returned
NewMapOf(p) ==
    IF p.err # nil
    THEN [fields |-> NilMap, err |-> p.err]
    ELSE [fields |-> FieldMap(NewMapLoop(<<>>, p.items.elems, 0)), err |-> nil]

\* f.annotate(severity, message) and its wrappers
annotate(f, severity, message) ==
    [f EXCEPT !.Errors = Append(f.Errors, [Message |-> message, Severity |-> severity])]
addError(f, message) == annotate(f, "danger", message)
addWarning(f, message) == annotate(f, "warning", message)

(***************************************************************************)
(* The DKIM key validator (NewDkimKey).                                    *)
(***************************************************************************)
\* "v", "g", "h", "k", "n", "p", "s", "t"
TagV == <<118>>
TagG == <<103>>
TagH == <<104>>
TagK == <<107>>
TagN == <<110>>
TagP == <<112>>
TagS == <<115>>
TagT == <<116>>
KnownTags == <<TagV, TagG, TagH, TagK, TagN, TagP, TagS, TagT>>

\* "DKIM1", "*", "sha256", "sha1"
DKIM1 == <<68, 75, 73, 77, 49>>
Star == <<STAR>>
Sha256 == <<115, 104, 97, 50, 53, 54>>
Sha1 == <<115, 104, 97, 49>>

\* the messages, as annotate stores them (a string message is HTML-escaped,
\* a template.HTML message is kept as written)
MsgVersionValue ==
    "The version field must be <a href=\"/rfc/6376#section-3.6.1\">DKIM1</a>\""
MsgVersionFirst ==
    "The version tag must be the <a href=\"https://tools.wordtothewise.com/rfc/6376#section-3.6.1\">first tag in the record</a>"
MsgVersionMissing ==
    "DKIM key records should ideally have a version field"
MsgGranularityStar ==
    "The granularity field (\"g=*\") is deprecated in <a href=\"https://tools.wordtothewise.com/rfc/6376#appendix-C.2\">RFC 6376</a>"
MsgGranularityOther ==
    "The granularity field (&#34;g=&#34;) is deprecated in &lt;a href=&#34;https://tools.wordtothewise.com/rfc/6376#appendix-C.2&#34;&gt;RFC 6376&lt;/a&gt; and this value will be treated differently by pre-6376 and post-6376 validators"
MsgSha1 ==
    "SHA1 is <a href=\"/rfc/8301#section-3.1\">not a trusted hash</a>, mail using it may fail DKIM now or in the future"
\* fmt.Sprintf("'%s' isn't a hash type I recognize") is called without the
\* operand, so the verb prints as %!s(MISSING)
MsgUnknownHash ==
    "&#39;%!s(MISSING)&#39; isn&#39;t a hash type I recognize"

\* ParseError{}
ZeroParseError == [Message |-> "", Pos |-> 0]

\* DkimKey{}
ZeroDkimKey ==
    [V |-> ZeroField, G |-> ZeroField, H |-> ZeroField, K |-> ZeroField,
     N |-> ZeroField, P |-> ZeroField, S |-> ZeroField, T |-> ZeroField,
     Unrecognized |-> NilMap, ParseError |-> ZeroParseError]

\* KeyOfError without the default case of the type switch
KeyOfErrorNoDefault(e) ==
    IF e.typ = "ParseError"
    THEN [ZeroDkimKey EXCEPT !.ParseError = [Message |-> e.Message, Pos |-> e.Pos]]
    ELSE ZeroDkimKey

\* the DkimKey returned when NewMap failed
KeyOfError(e) ==
    IF e.typ = "ParseError"
    THEN [ZeroDkimKey EXCEPT !.ParseError = [Message |-> e.Message, Pos |-> e.Pos]]
    ELSE [ZeroDkimKey EXCEPT !.ParseError = [Message |-> e.Message, Pos |-> 0]]

\* delete every known tag from the map
RECURSIVE DeleteAll(_, _)
DeleteAll(m, ks) ==
    IF ks = <<>> THEN m ELSE DeleteAll(Delete(m, Head(ks)), Tail(ks))

\* Project with "p" missing from the list of deleted keys
ProjectKeepsP(m) ==
    [V |-> Lookup(m, TagV), G |-> Lookup(m, TagG), H |-> Lookup(m, TagH),
     K |-> Lookup(m, TagK), N |-> Lookup(m, TagN), P |-> Lookup(m, TagP),
     S |-> Lookup(m, TagS), T |-> Lookup(m, TagT),
     Unrecognized |-> DeleteAll(m, <<TagV, TagG, TagH, TagK, TagN, TagS, TagT>>),
     ParseError |-> ZeroParseError]

\* the composite literal and the delete loop
Project(m) ==
    [V |-> Lookup(m, TagV), G |-> Lookup(m, TagG), H |-> Lookup(m, TagH),
     K |-> Lookup(m, TagK), N |-> Lookup(m, TagN), P |-> Lookup(m, TagP),
     S |-> Lookup(m, TagS), T |-> Lookup(m, TagT),
     Unrecognized |-> DeleteAll(m, KnownTags),
     ParseError |-> ZeroParseError]

\* Annotate version
AnnotateV(k) ==
    IF k.V.Defined
    THEN LET k1 == IF k.V.Item.Value # DKIM1
                   THEN [k EXCEPT !.V = addError(k.V, MsgVersionValue)]
                   ELSE k
         IN  IF k1.V.Index # 0
             THEN [k1 EXCEPT !.V = addError(k1.V, MsgVersionFirst)]
             ELSE k1
    ELSE [k EXCEPT !.V = addWarning(k.V, MsgVersionMissing)]

\* Annotate granularity: both findings are added to ret.V
AnnotateG(k) ==
    IF k.G.Defined
    THEN IF k.G.Item.Value = Star
         THEN [k EXCEPT !.V = addWarning(k.V, MsgGranularityStar)]
         ELSE [k EXCEPT !.V = addError(k.V, MsgGranularityOther)]
    ELSE k

\* strings.Split(s, ":")
RECURSIVE Split(_, _)
Split(s, sep) ==
    IF \E i \in 1..Len(s) : s[i] = sep
    THEN LET i == CHOOSE j \in 1..Len(s) :
                      s[j] = sep /\ \A h \in 1..(j - 1) : s[h] # sep
         IN  <<SubSeq(s, 1, i - 1)>> \o Split(SubSeq(s, i + 1, Len(s)), sep)
    ELSE <<s>>

\* AnnotateAlgo with the case "sha256" falling into the default
AnnotateAlgoNoSha256(f, algo) ==
    IF algo = Sha1 THEN addWarning(f, MsgSha1)
    ELSE addWarning(f, MsgUnknownHash)

\* the switch on one algo
AnnotateAlgo(f, algo) ==
    IF algo = Sha256 THEN f
    ELSE IF algo = Sha1 THEN addWarning(f, MsgSha1)
    ELSE addWarning(f, MsgUnknownHash)

RECURSIVE AnnotateAlgos(_, _)
AnnotateAlgos(f, algos) ==
    IF algos = <<>> THEN f
    ELSE AnnotateAlgos(AnnotateAlgo(f, Head(algos)), Tail(algos))

\* Annotate hash
AnnotateH(k) ==
    IF k.H.Defined
    THEN [k EXCEPT !.H = AnnotateAlgos(k.H, Split(k.H.Item.Value, COLON))]
    ELSE k

\* Annotate signing algorithm: the switch has no case
AnnotateK(k) == k

(***************************************************************************)
(* Inputs.                                                                 *)
(***************************************************************************)
MaxPieces == 6
MaxSpecs == 3

RECURSIVE Concat(_)
Concat(ss) == IF ss = <<>> THEN <<>> ELSE Head(ss) \o Concat(Tail(ss))

\* ss joined by the byte sep
RECURSIVE Join(_, _)
Join(ss, sep) ==
    IF ss = <<>> THEN <<>>
    ELSE IF Len(ss) = 1 THEN Head(ss)
    ELSE Head(ss) \o <<sep>> \o Join(Tail(ss), sep)

SeqsUpTo(S, n) == UNION { [1..k -> S] : k \in 0..n }

\* "a", "=", ";", " ", "\r\n" and the three-byte rune U+20AC
Pieces == { <<97>>, <<EQUALS>>, <<SEMI>>, <<SP>>, CRLF, <<226, 130, 172>> }

\* "v=1; a=rsa-sha256; d=example.net; s=brisbane; c=simple"
Example ==
    <<118, 61, 49, 59, 32, 97, 61, 114, 115, 97, 45, 115, 104, 97, 50, 53,
      54, 59, 32, 100, 61, 101, 120, 97, 109, 112, 108, 101, 46, 110, 101,
      116, 59, 32, 115, 61, 98, 114, 105, 115, 98, 97, 110, 101, 59, 32,
      99, 61, 115, 105, 109, 112, 108, 101>>

\* sig1, sig2 and key1 of the test file
sig1 ==
    <<32, 118, 61, 49, 59, 32, 97, 61, 114, 115, 97, 45, 115, 104, 97, 50,
      53, 54, 59, 32, 100, 61, 101, 120, 97, 109, 112, 108, 101, 46, 110,
      101, 116, 59, 32, 115, 61, 98, 114, 105, 115, 98, 97, 110, 101, 59,
      13, 10, 32, 99, 61, 115, 105, 109, 112, 108, 101, 59, 32, 113, 61,
      100, 110, 115, 47, 116, 120, 116, 59, 32, 105, 61, 64, 101, 110, 103,
      46, 101, 120, 97, 109, 112, 108, 101, 46, 110, 101, 116, 59, 13, 10,
      32, 116, 61, 49, 49, 49, 55, 53, 55, 52, 57, 51, 56, 59, 32, 120, 61,
      49, 49, 49, 56, 48, 48, 54, 57, 51, 56, 59, 13, 10, 32, 104, 61, 102,
      114, 111, 109, 58, 116, 111, 58, 115, 117, 98, 106, 101, 99, 116, 58,
      100, 97, 116, 101, 59, 13, 10, 32, 122, 61, 70, 114, 111, 109, 58,
      102, 111, 111, 64, 101, 110, 103, 46, 101, 120, 97, 109, 112, 108,
      101, 46, 110, 101, 116, 124, 84, 111, 58, 106, 111, 101, 64, 101,
      120, 97, 109, 112, 108, 101, 46, 99, 111, 109, 124, 13, 10, 32, 83,
      117, 98, 106, 101, 99, 116, 58, 100, 101, 109, 111, 61, 50, 48, 114,
      117, 110, 124, 68, 97, 116, 101, 58, 74, 117, 108, 121, 61, 50, 48,
      53, 44, 61, 50, 48, 50, 48, 48, 53, 61, 50, 48, 51, 58, 52, 52, 58,
      48, 56, 61, 50, 48, 80, 77, 61, 50, 48, 45, 48, 55, 48, 48, 59, 13,
      10, 32, 98, 104, 61, 77, 84, 73, 122, 78, 68, 85, 50, 78, 122, 103,
      53, 77, 68, 69, 121, 77, 122, 81, 49, 78, 106, 99, 52, 79, 84, 65,
      120, 77, 106, 77, 48, 78, 84, 89, 51, 79, 68, 107, 119, 77, 84, 73,
      61, 59, 13, 10, 32, 98, 61, 100, 122, 100, 86, 121, 79, 102, 65, 75,
      67, 100, 76, 88, 100, 74, 79, 99, 57, 71, 50, 113, 56, 76, 111, 88,
      83, 108, 69, 110, 105, 83, 98, 97, 118, 43, 121, 117, 85, 52, 122,
      71, 101, 101, 114, 117, 68, 48, 48, 108, 115, 122, 90, 86, 111, 71,
      52, 90, 72, 82, 78, 105, 89, 122, 82>>

sig2 ==
    <<118, 61, 49, 59, 32, 97, 61, 114, 115, 97, 45, 115, 104, 97, 50, 53,
      54, 59, 32, 115, 61, 98, 114, 105, 115, 98, 97, 110, 101, 59, 32,
      100, 61, 101, 120, 97, 109, 112, 108, 101, 46, 99, 111, 109, 59, 9,
      13, 10, 32, 9, 32, 99, 61, 115, 105, 109, 112, 108, 101, 47, 115,
      105, 109, 112, 108, 101, 59, 32, 113, 61, 100, 110, 115, 47, 116,
      120, 116, 59, 32, 105, 61, 106, 111, 101, 64, 102, 111, 111, 116, 98,
      97, 108, 108, 46, 101, 120, 97, 109, 112, 108, 101, 46, 99, 111, 109,
      59, 13, 10, 32, 104, 61, 82, 101, 99, 101, 105, 118, 101, 100, 32,
      58, 32, 70, 114, 111, 109, 32, 58, 32, 84, 111, 32, 58, 32, 83, 117,
      98, 106, 101, 99, 116, 32, 58, 32, 68, 97, 116, 101, 32, 58, 32, 77,
      101, 115, 115, 97, 103, 101, 45, 73, 68, 59, 13, 10, 32, 98, 104, 61,
      50, 106, 85, 83, 79, 72, 57, 78, 104, 116, 86, 71, 67, 81, 87, 78,
      114, 57, 66, 114, 73, 65, 80, 114, 101, 75, 81, 106, 79, 54, 83, 110,
      55, 88, 73, 107, 102, 74, 86, 79, 122, 118, 56, 61, 59, 13, 10, 32,
      98, 61, 65, 117, 85, 111, 70, 69, 102, 68, 120, 84, 68, 107, 72, 108,
      76, 88, 83, 90, 69, 112, 90, 106, 55, 57, 76, 73, 67, 69, 112, 115,
      54, 101, 100, 97, 55, 87, 51, 100, 101, 84, 86, 70, 79, 107, 52, 121,
      65, 85, 111, 113, 79, 66, 13, 10, 32, 52, 110, 117, 106, 99, 55, 89,
      111, 112, 100, 71, 53, 100, 87, 76, 83, 100, 78, 103, 54, 120, 78,
      65, 90, 112, 79, 80, 114, 43, 107, 72, 120, 116, 49, 73, 114, 69, 43,
      78, 97, 104, 77, 54, 76, 47, 76, 98, 118, 97, 72, 117, 116, 13, 10,
      32, 75, 86, 100, 107, 76, 76, 107, 112, 86, 97, 86, 86, 81, 80, 122,
      101, 82, 68, 73, 48, 48, 57, 83, 79, 50, 73, 108, 53, 76, 117, 55,
      114, 68, 78, 72, 54, 109, 90, 99, 107, 66, 100, 114, 73, 120, 48,
      111, 114, 69, 116, 90, 86, 13, 10, 32, 52, 98, 109, 112, 47, 89, 122,
      104, 119, 118, 99, 117, 98, 85, 52, 61, 59>>

key1 ==
    <<118, 61, 68, 75, 73, 77, 49, 59, 32, 112, 61, 77, 73, 71, 102, 77,
      65, 48, 71, 67, 83, 113, 71, 83, 73, 98, 51, 68, 81, 69, 66, 65, 81,
      85, 65, 65, 52, 71, 78, 65, 68, 67, 66, 105, 81, 13, 10, 32, 75, 66,
      103, 81, 68, 119, 73, 82, 80, 47, 85, 67, 51, 83, 66, 115, 69, 109,
      71, 113, 90, 57, 90, 74, 87, 51, 47, 68, 107, 77, 111, 71, 101, 76,
      110, 81, 103, 49, 102, 87, 110, 55, 47, 122, 89, 116, 13, 10, 32, 73,
      120, 78, 50, 83, 110, 70, 67, 106, 120, 79, 67, 75, 71, 57, 118, 51,
      98, 52, 106, 89, 102, 99, 84, 78, 104, 53, 105, 106, 83, 115, 113,
      54, 51, 49, 117, 66, 73, 116, 76, 97, 55, 111, 100, 43, 118, 13, 10,
      32, 47, 82, 116, 100, 67, 50, 85, 122, 74, 49, 108, 87, 84, 57, 52,
      55, 113, 82, 43, 82, 99, 97, 99, 50, 103, 98, 116, 111, 47, 78, 77,
      113, 74, 48, 102, 122, 102, 86, 106, 72, 52, 79, 117, 75, 104, 105,
      13, 10, 32, 116, 100, 89, 57, 116, 102, 54, 109, 99, 119, 71, 106,
      97, 78, 66, 99, 87, 84, 111, 73, 77, 109, 80, 83, 80, 68, 100, 81,
      80, 78, 85, 89, 99, 107, 99, 81, 50, 81, 73, 68, 65, 81, 65, 66>>

Samples == { Example, sig1, sig2, key1 }

\* "a", "=", ";", " ", "\r\n", the control character U+0001 and the byte 0xFF,
\* which is no UTF-8 encoding
MaxRawPieces == 3
RawPieces == { <<97>>, <<EQUALS>>, <<SEMI>>, <<SP>>, CRLF, <<1>>, <<255>> }
RawInputs == { Concat(ps) : ps \in SeqsUpTo(RawPieces, MaxRawPieces) }

\* every concatenation of at most MaxPieces pieces, and the samples
LexInputs == { Concat(ps) : ps \in SeqsUpTo(Pieces, MaxPieces) } \cup Samples

\* tag "=" value
Kv(tag, value) == tag \o <<EQUALS>> \o value

\* "1", "x", "V", "md5", "rsa"
One == <<49>>
TagX == <<120>>
TagUpperV == <<86>>
Md5 == <<109, 100, 53>>
Rsa == <<114, 115, 97>>

\* the tag-specs key records are made of:
\*   "v=DKIM1", "v=1", "V=DKIM1", "g=*", "g=x",
\*   "h=sha256", "h=sha256:sha1", "h=md5:sha1:sha256:", "h=",
\*   " k = rsa\r\n\t", "x=sha1\r\n *", "p=",
\* and two malformed ones, "s" and "t=\r\n"
KeySpecs ==
    { Kv(TagV, DKIM1), Kv(TagV, One), Kv(TagUpperV, DKIM1),
      Kv(TagG, Star), Kv(TagG, TagX),
      Kv(TagH, Sha256), Kv(TagH, Sha256 \o <<COLON>> \o Sha1),
      Kv(TagH, Md5 \o <<COLON>> \o Sha1 \o <<COLON>> \o Sha256 \o <<COLON>>),
      Kv(TagH, <<>>),
      <<SP>> \o TagK \o <<SP, EQUALS, SP>> \o Rsa \o CRLF \o <<HT>>,
      Kv(TagX, Sha1 \o CRLF \o <<SP>> \o Star),
      Kv(TagP, <<>>),
      TagS,
      Kv(TagT, CRLF) }

\* every record of at most MaxSpecs tag-specs joined by ";"
KeyInputs == { Join(ks, SEMI) : ks \in SeqsUpTo(KeySpecs, MaxSpecs) }

(***************************************************************************)
(* State.                                                                  *)
(***************************************************************************)
VARIABLES
    l,       \* NewTagValue: the lexer
    item,    \* NewTagValue: the Item under construction
    items,   \* NewTagValue: the Items appended so far
    parsed,  \* what NewTagValue returned: [items, err]
    Fields,  \* NewDkimKey: the map NewMap returned
    err,     \* NewDkimKey: the error NewMap returned
    ret,     \* NewDkimKey: the DkimKey under construction
    pc       \* position in NewDkimKey -> NewMap -> NewTagValue

vars == <<l, item, items, parsed, Fields, err, ret, pc>>

NotReturned == [items |-> NilItems, err |-> nil]

InitWith(inputs) ==
    /\ l \in { NewLexer(input) : input \in inputs }
    /\ item = ZeroItem
    /\ items = <<>>
    /\ parsed = NotReturned
    /\ Fields = NilMap
    /\ err = nil
    /\ ret = ZeroDkimKey
    /\ pc = "loop"

Init == InitWith(LexInputs)

InitKey == InitWith(KeyInputs)

InitRaw == InitWith(RawInputs)

\* NewTagValue returns its, e
Return(its, e) ==
    /\ pc' = "returned"
    /\ parsed' = [items |-> its, err |-> e]
    /\ UNCHANGED <<Fields, err, ret>>

(***************************************************************************)
(* NewTagValue, one action per statement of the outer loop body.           *)
(***************************************************************************)
\* err := l.skipOptionalFws(); if err != nil { return nil, err }
Skip(from, to) ==
    /\ pc = from
    /\ LET s == skipOptionalFws(l)
       IN  /\ l' = s.l
           /\ IF s.err # nil
              THEN Return(NilItems, s.err)
              ELSE /\ pc' = to
                   /\ UNCHANGED <<parsed, Fields, err, ret>>
    /\ UNCHANGED <<item, items>>

SkipBeforeTag == Skip("loop", "tag")

\* ParseTag testing for a letter before testing for end-of-input
ParseTagAlphaFirst ==
    /\ pc = "tag"
    /\ LET n == next(l)
       IN  IF ~IsAlpha(n.r)
           THEN /\ Return(NilItems, ParseError(ExpectingAlpha, n.l.pos))
                /\ l' = n.l
                /\ UNCHANGED <<item, items>>
           ELSE IF n.r = eof
           THEN /\ Return(ItemSlice(items), nil)
                /\ l' = n.l
                /\ UNCHANGED <<item, items>>
           ELSE /\ l' = acceptTagRun(n.l)
                /\ item' = [ZeroItem EXCEPT !.Tag = Slice(l'.input, l'.start, l'.pos),
                                            !.TagPos = l'.start]
                /\ pc' = "tagged"
                /\ UNCHANGED <<items, parsed, Fields, err, ret>>

\* the first rune of the tag, then the run of tag runes
ParseTag ==
    /\ pc = "tag"
    /\ LET n == next(l)
       IN  IF n.r = eof
           THEN /\ Return(ItemSlice(items), nil)
                /\ l' = n.l
                /\ UNCHANGED <<item, items>>
           ELSE IF ~IsAlpha(n.r)
           THEN /\ Return(NilItems, ParseError(ExpectingAlpha, n.l.pos))
                /\ l' = n.l
                /\ UNCHANGED <<item, items>>
           ELSE /\ l' = acceptTagRun(n.l)
                /\ item' = [ZeroItem EXCEPT !.Tag = Slice(l'.input, l'.start, l'.pos),
                                            !.TagPos = l'.start]
                /\ pc' = "tagged"
                /\ UNCHANGED <<items, parsed, Fields, err, ret>>

SkipBeforeEquals == Skip("tagged", "eq")

\* r = l.next(); if r != '=' { return nil, ParseError{...} }
ParseEquals ==
    /\ pc = "eq"
    /\ LET n == next(l)
       IN  /\ l' = n.l
           /\ IF n.r # EQUALS
              THEN Return(NilItems, ParseError(ExpectingEquals, n.l.pos))
              ELSE /\ pc' = "equals"
                   /\ UNCHANGED <<parsed, Fields, err, ret>>
    /\ UNCHANGED <<item, items>>

SkipBeforeValue == Skip("equals", "value")

\* one iteration of the inner value loop
ParseValue ==
    /\ pc = "value"
    /\ LET n == next(l)
           b == backup(n.l)
           whitespacePos == b.pos
           a == acceptOptionalFws(b)
           m == next(a.l)
       IN  IF IsValChar(n.r)
           THEN /\ l' = n.l
                /\ UNCHANGED <<item, items, parsed, Fields, err, ret, pc>>
           ELSE IF a.err # nil
           THEN /\ Return(NilItems, a.err)
                /\ l' = a.l
                /\ UNCHANGED <<item, items>>
           ELSE IF m.r = eof \/ m.r = SEMI
           THEN /\ l' = m.l
                /\ item' = [item EXCEPT !.Value = Slice(l.input, l.start, whitespacePos),
                                        !.ValuePos = l.start]
                /\ items' = Append(items, item')
                /\ pc' = "loop"
                /\ UNCHANGED <<parsed, Fields, err, ret>>
           ELSE /\ l' = m.l
                /\ UNCHANGED <<item, items, parsed, Fields, err, ret, pc>>

(***************************************************************************)
(* NewMap and NewDkimKey.                                                  *)
(***************************************************************************)
\* NewMap: fold what NewTagValue returned into the map NewDkimKey receives
NewMap ==
    /\ pc = "returned"
    /\ LET m == NewMapOf(parsed)
       IN  /\ Fields' = m.fields
           /\ err' = m.err
    /\ pc' = "mapped"
    /\ UNCHANGED <<l, item, items, parsed, ret>>

\* NewDkimKey: the error return, or the projection onto the named slots;
\* ret.Unrecognized is the map Fields itself, so the deletes empty both
NewDkimKeyProject ==
    /\ pc = "mapped"
    /\ IF err # nil
       THEN /\ ret' = KeyOfError(err)
            /\ pc' = "done"
            /\ UNCHANGED Fields
       ELSE /\ ret' = Project(Fields)
            /\ Fields' = ret'.Unrecognized
            /\ pc' = "version"
    /\ UNCHANGED <<l, item, items, parsed, err>>

NewDkimKeyVersion ==
    /\ pc = "version"
    /\ ret' = AnnotateV(ret)
    /\ pc' = "granularity"
    /\ UNCHANGED <<l, item, items, parsed, Fields, err>>

NewDkimKeyGranularity ==
    /\ pc = "granularity"
    /\ ret' = AnnotateG(ret)
    /\ pc' = "hash"
    /\ UNCHANGED <<l, item, items, parsed, Fields, err>>

\* the hash and signing algorithm blocks; the function then ends
NewDkimKeyHash ==
    /\ pc = "hash"
    /\ ret' = AnnotateK(AnnotateH(ret))
    /\ pc' = "done"
    /\ UNCHANGED <<l, item, items, parsed, Fields, err>>

Next ==
    \/ SkipBeforeTag
    \/ ParseTag
    \/ SkipBeforeEquals
    \/ ParseEquals
    \/ SkipBeforeValue
    \/ ParseValue
    \/ NewMap
    \/ NewDkimKeyProject
    \/ NewDkimKeyVersion
    \/ NewDkimKeyGranularity
    \/ NewDkimKeyHash

\* inputs assembled from lexical pieces, and the samples
Spec == Init /\ [][Next]_vars

\* DKIM key records
SpecKey == InitKey /\ [][Next]_vars

\* inputs with control characters and invalid UTF-8; the call is one thread
\* of straight-line code, so a statement that can run does run
SpecRaw == InitRaw /\ [][Next]_vars /\ WF_vars(Next)

(***************************************************************************)
(* Properties.                                                             *)
(***************************************************************************)
\* NewTagValue has returned, so parsed holds its result
Returned == pc \in {"returned", "mapped", "version", "granularity", "hash", "done"}
\* NewMap has returned, so Fields and err hold its result
Mapped == pc \in {"mapped", "version", "granularity", "hash", "done"}

Failed == Returned /\ parsed.err # nil
Succeeded == Returned /\ parsed.err = nil
FailedOnFws == Failed /\ parsed.err.Message = MalformedFws

\* s has a CRLF at offset c that no space or tab follows
BareCrlfAt(s, c) ==
    /\ HasPrefixAt(s, c, CRLF)
    /\ ~(c + 2 < Len(s) /\ s[c + 3] \in WSP)

HasBareCrlf(s) == \E c \in 0..(Len(s) - 2) : BareCrlfAt(s, c)

\* the offset of the CRLF acceptOptionalFws gave up on: it leaves the cursor
\* at that offset + 2 - width
OffendingCrlf == l.pos + l.width - 2

\* C1: when a CRLF that no space or tab follows is met at a folding
\* whitespace skip point, the error NewTagValue returns is a parse error whose
\* position is the offset of that CRLF, and so is ParseError.Pos of the
\* DkimKey.
C1_FwsErrorCarriesOffset ==
    FailedOnFws =>
        /\ BareCrlfAt(l.input, OffendingCrlf)
        /\ parsed.err.typ = "ParseError"
        /\ parsed.err.Pos = OffendingCrlf
        /\ (pc = "done" => ret.ParseError.Pos = OffendingCrlf)

\* C2: NewTagValue never succeeds on an input that has a CRLF that no space
\* or tab follows.
C2_NoBareCrlfAccepted == Succeeded => ~HasBareCrlf(l.input)

Ws4 == {SP, HT, CR, LF}

\* C10: on success no Item.Value begins or ends with a space, tab, CR or LF,
\* and Value is the input text from ValuePos on, inner folding whitespace
\* included as written.
C10_ValueTrimmed ==
    Succeeded =>
        \A i \in 1..Len(parsed.items.elems) :
            LET it == parsed.items.elems[i]
            IN  /\ it.Value = Slice(l.input, it.ValuePos, it.ValuePos + Len(it.Value))
                /\ it.Value # <<>> =>
                       /\ it.Value[1] \notin Ws4
                       /\ it.Value[Len(it.Value)] \notin Ws4

NamedSlots(k) == <<k.V, k.G, k.H, k.K, k.N, k.P, k.S, k.T>>

Occurrences(its, tag) == { i \in 1..Len(its) : its[i].Tag = tag }

Last(S) == CHOOSE i \in S : \A j \in S : j <= i

\* C3: NewMap returns one Field per distinct tag; the Field of a repeated
\* tag has Duplicate set and the Item and Index of the last occurrence, the
\* Field of a tag that occurs once has Duplicate unset; every Field is
\* Defined and has no annotation.
C3_LastOccurrenceWins ==
    (pc = "mapped" /\ err = nil) =>
        LET its == parsed.items.elems
        IN  /\ ~Fields.isNil
            /\ DOMAIN Fields.elems = { its[i].Tag : i \in 1..Len(its) }
            /\ \A tag \in DOMAIN Fields.elems :
                   LET occ == Occurrences(its, tag)
                       f == Fields.elems[tag]
                   IN  /\ f.Item = its[Last(occ)]
                       /\ f.Index = Last(occ) - 1
                       /\ f.Duplicate = (Cardinality(occ) > 1)
                       /\ f.Defined
                       /\ f.Errors = <<>>

\* C3 witness: v occurs twice with different values, another tag once
C3_Witness ==
    /\ pc = "mapped"
    /\ err = nil
    /\ Len(parsed.items.elems) = 3
    /\ parsed.items.elems[1].Tag = TagV
    /\ parsed.items.elems[1].Value = DKIM1
    /\ parsed.items.elems[3].Tag = TagV
    /\ parsed.items.elems[3].Value = One
    /\ parsed.items.elems[2].Tag = TagG

HasSeverity(f, severity) ==
    \E i \in 1..Len(f.Errors) : f.Errors[i].Severity = severity

Validated == pc = "done" /\ err = nil

\* C4: whatever other tags the record has, v = "DKIM1" at Index 0 leaves V
\* without a danger annotation; v = "DKIM1" at Index > 0, or any other value
\* of v, gives V a danger annotation; without v, V has a warning annotation.
C4_VersionFindings ==
    Validated =>
        /\ (ret.V.Defined /\ ret.V.Item.Value = DKIM1 /\ ret.V.Index = 0)
               => ~HasSeverity(ret.V, "danger")
        /\ (ret.V.Defined /\ ret.V.Item.Value = DKIM1 /\ ret.V.Index > 0)
               => HasSeverity(ret.V, "danger")
        /\ (ret.V.Defined /\ ret.V.Item.Value # DKIM1)
               => HasSeverity(ret.V, "danger")
        /\ ~ret.V.Defined => HasSeverity(ret.V, "warning")

\* C5: g = "*" gives the G field exactly one annotation, a warning; any
\* other g gives G exactly one annotation, a danger; without g, G has no
\* annotation.
C5_GranularityFindings ==
    Validated =>
        /\ (ret.G.Defined /\ ret.G.Item.Value = Star)
               => (Len(ret.G.Errors) = 1 /\ ret.G.Errors[1].Severity = "warning")
        /\ (ret.G.Defined /\ ret.G.Item.Value # Star)
               => (Len(ret.G.Errors) = 1 /\ ret.G.Errors[1].Severity = "danger")
        /\ ~ret.G.Defined => ret.G.Errors = <<>>

\* the places of the byte b in v, and the parts of v they separate
Places(v, b) == { i \in 1..Len(v) : v[i] = b }
PlaceNo(v, b, k) ==
    IF k = 0 THEN 0
    ELSE IF k > Cardinality(Places(v, b)) THEN Len(v) + 1
    ELSE CHOOSE i \in Places(v, b) : Cardinality({ j \in Places(v, b) : j <= i }) = k
PartNo(v, b, k) == SubSeq(v, PlaceNo(v, b, k - 1) + 1, PlaceNo(v, b, k) - 1)
Parts(v, b) == [k \in 1..(Cardinality(Places(v, b)) + 1) |-> PartNo(v, b, k)]

\* the colon-separated tokens of an h value
Tokens(v) == Parts(v, COLON)

NotSha256(token) == token # Sha256

\* the annotation the h rules give a token other than "sha256"
HashWarning(token) ==
    [Message |-> IF token = Sha1 THEN MsgSha1 ELSE MsgUnknownHash,
     Severity |-> "warning"]

\* C6: with h present, H carries, in token order, one warning for each
\* colon-separated token of h other than "sha256" and nothing else; without
\* h, H carries no annotation.
C6_HashFindings ==
    Validated =>
        IF ret.H.Defined
        THEN LET other == SelectSeq(Tokens(ret.H.Item.Value), NotSha256)
             IN  ret.H.Errors = [j \in 1..Len(other) |-> HashWarning(other[j])]
        ELSE ret.H.Errors = <<>>

\* C6 witness: h = "sha256:sha1" was validated and H has exactly one warning
C6_Witness ==
    /\ Validated
    /\ ret.H.Defined
    /\ ret.H.Item.Value = Sha256 \o <<COLON>> \o Sha1
    /\ Len(ret.H.Errors) = 1
    /\ ret.H.Errors[1].Severity = "warning"

\* the Field of tag in the map m, the zero Field when m has none
FieldOrZero(m, tag) == IF tag \in DOMAIN m.elems THEN m.elems[tag] ELSE ZeroField

KnownNames == {TagV, TagG, TagH, TagK, TagN, TagP, TagS, TagT}

WithoutErrors(f) == [f EXCEPT !.Errors = <<>>]

\* C7: the projection step copies the map's Field of each of the eight names
\* (the zero Field when absent) into its slot and leaves in Unrecognized
\* exactly the Fields of all other tags; the annotation steps change neither
\* Unrecognized nor anything but the annotations of a slot.
C7_Projection ==
    [][ /\ (pc = "mapped" /\ err = nil) =>
               /\ ret'.V = FieldOrZero(Fields, TagV)
               /\ ret'.G = FieldOrZero(Fields, TagG)
               /\ ret'.H = FieldOrZero(Fields, TagH)
               /\ ret'.K = FieldOrZero(Fields, TagK)
               /\ ret'.N = FieldOrZero(Fields, TagN)
               /\ ret'.P = FieldOrZero(Fields, TagP)
               /\ ret'.S = FieldOrZero(Fields, TagS)
               /\ ret'.T = FieldOrZero(Fields, TagT)
               /\ ~ret'.Unrecognized.isNil
               /\ DOMAIN ret'.Unrecognized.elems = (DOMAIN Fields.elems) \ KnownNames
               /\ \A t \in DOMAIN ret'.Unrecognized.elems :
                      ret'.Unrecognized.elems[t] = Fields.elems[t]
        /\ pc \in {"version", "granularity", "hash"} =>
               /\ ret'.Unrecognized = ret.Unrecognized
               /\ \A i \in 1..8 :
                      WithoutErrors(NamedSlots(ret')[i]) = WithoutErrors(NamedSlots(ret)[i])
      ]_vars

\* C7 witness: a validated record with "V", which is unrecognized and leaves
\* V undefined, and with p in its slot
C7_Witness ==
    /\ Validated
    /\ DOMAIN ret.Unrecognized.elems = {TagUpperV}
    /\ ~ret.V.Defined
    /\ ret.P.Defined

(***************************************************************************)
(* The tag-list grammar of RFC 6376, as predicates on byte strings.        *)
(***************************************************************************)
ALPHA == Upper \cup Lower
ALNUMPUNC == ALPHA \cup Digit \cup {UNDERSCORE}
VALCHAR == (33..58) \cup (60..126)

AllIn(s, S) == \A i \in 1..Len(s) : s[i] \in S

\* the length of the longest prefix (suffix) of s made of bytes of S
LeadLen(s, S) ==
    CHOOSE k \in 0..Len(s) :
        AllIn(SubSeq(s, 1, k), S) /\ (k < Len(s) => s[k + 1] \notin S)
TrailLen(s, S) ==
    CHOOSE k \in 0..Len(s) :
        AllIn(SubSeq(s, Len(s) - k + 1, Len(s)), S) /\ (k < Len(s) => s[Len(s) - k] \notin S)

\* FWS = [*WSP CRLF] 1*WSP
IsFWS(s) ==
    \/ s # <<>> /\ AllIn(s, WSP)
    \/ \E k \in 0..(Len(s) - 3) :
           /\ AllIn(SubSeq(s, 1, k), WSP)
           /\ SubSeq(s, k + 1, k + 2) = CRLF
           /\ AllIn(SubSeq(s, k + 3, Len(s)), WSP)
IsOptFWS(s) == s = <<>> \/ IsFWS(s)

\* tag-name = ALPHA *ALNUMPUNC
IsTagName(s) == s # <<>> /\ s[1] \in ALPHA /\ AllIn(s, ALNUMPUNC)

\* tag-value = [ tval *( 1*(WSP / FWS) tval ) ]: it begins and ends with a
\* VALCHAR, and between two VALCHARs every CRLF is followed by a WSP
IsTagValue(s) ==
    \/ s = <<>>
    \/ /\ s[1] \in VALCHAR
       /\ s[Len(s)] \in VALCHAR
       /\ \A i \in 1..Len(s) :
              /\ s[i] \in VALCHAR \cup Ws4
              /\ s[i] = CR => (s[i + 1] = LF /\ s[i + 2] \in WSP)
              /\ s[i] = LF => s[i - 1] = CR

\* tag-spec = [FWS] tag-name [FWS] "=" [FWS] tag-value [FWS], cut where the
\* byte classes force the cuts
SpecName(s) ==
    LET afterFws == SubSeq(s, LeadLen(s, Ws4) + 1, Len(s))
    IN  SubSeq(afterFws, 1, LeadLen(afterFws, ALNUMPUNC))
AfterName(s) ==
    LET afterFws == SubSeq(s, LeadLen(s, Ws4) + 1, Len(s))
    IN  SubSeq(afterFws, LeadLen(afterFws, ALNUMPUNC) + 1, Len(afterFws))
\* what follows the "="
AfterEquals(s) ==
    LET t == AfterName(s)
    IN  SubSeq(t, LeadLen(t, Ws4) + 2, Len(t))
SpecValue(s) ==
    LET t == AfterEquals(s)
    IN  IF AllIn(t, Ws4) THEN <<>>
        ELSE SubSeq(t, LeadLen(t, Ws4) + 1, Len(t) - TrailLen(t, Ws4))

IsTagSpec(s) ==
    LET t == AfterName(s)
        u == AfterEquals(s)
    IN  /\ IsOptFWS(SubSeq(s, 1, LeadLen(s, Ws4)))
        /\ IsTagName(SpecName(s))
        /\ IsOptFWS(SubSeq(t, 1, LeadLen(t, Ws4)))
        /\ LeadLen(t, Ws4) < Len(t)
        /\ t[LeadLen(t, Ws4) + 1] = EQUALS
        /\ IF AllIn(u, Ws4)
           THEN \E k \in 0..Len(u) :
                    IsOptFWS(SubSeq(u, 1, k)) /\ IsOptFWS(SubSeq(u, k + 1, Len(u)))
           ELSE /\ IsOptFWS(SubSeq(u, 1, LeadLen(u, Ws4)))
                /\ IsTagValue(SpecValue(s))
                /\ IsOptFWS(SubSeq(u, Len(u) - TrailLen(u, Ws4) + 1, Len(u)))

\* tag-list = tag-spec *( ";" tag-spec ) [ ";" ]: its tag-specs
TagSpecs(s) ==
    LET parts == Parts(s, SEMI)
    IN  IF Len(parts) >= 2 /\ parts[Len(parts)] = <<>>
        THEN SubSeq(parts, 1, Len(parts) - 1)
        ELSE parts

Conforms(s) == \A k \in 1..Len(TagSpecs(s)) : IsTagSpec(TagSpecs(s)[k])

\* C9: NewTagValue parses every input that conforms to the tag-list grammar
\* without error into one Item per tag-spec, in order, with the tag-spec's
\* name and value; the example input gives five Items and a "v" Field with
\* value "1", Index 0 and Duplicate unset.
C9_GrammarAccepted ==
    /\ (pc = "returned" /\ Conforms(l.input)) =>
           LET specs == TagSpecs(l.input)
               its == parsed.items.elems
           IN  /\ parsed.err = nil
               /\ ~parsed.items.isNil
               /\ Len(its) = Len(specs)
               /\ \A k \in 1..Len(specs) :
                      /\ its[k].Tag = SpecName(specs[k])
                      /\ its[k].Value = SpecValue(specs[k])
    /\ (pc = "mapped" /\ l.input = Example) =>
           /\ err = nil
           /\ Len(parsed.items.elems) = 5
           /\ TagV \in DOMAIN Fields.elems
           /\ Fields.elems[TagV].Item.Value = One
           /\ Fields.elems[TagV].Index = 0
           /\ ~Fields.elems[TagV].Duplicate

\* C9 witness: a conforming input of several tag-specs, one of them with a
\* value folded across lines, has been parsed
C9_Witness ==
    /\ pc = "returned"
    /\ Conforms(l.input)
    /\ Len(parsed.items.elems) > 1
    /\ \E k \in 1..Len(parsed.items.elems) :
           \E i \in 1..Len(parsed.items.elems[k].Value) :
               parsed.items.elems[k].Value[i] = CR

(***************************************************************************)
(* Properties of the lexer's cursor.                                       *)
(***************************************************************************)
\* C11: in NewTagValue, whatever the input and also when the parse ends in
\* an error, backup() is never called twice without a call of next() in
\* between.
C11_BackupOncePerNext == l.backups <= 1

\* the positions of pc inside NewTagValue
LexPcs == {"loop", "tag", "tagged", "eq", "equals", "value"}

\* C12: NewTagValue returns on every input, control characters, invalid
\* UTF-8 and end-of-input inside a value included: an iteration of the value
\* loop that goes round again has moved the cursor forward, no statement of
\* the tag-spec loop moves it back, and reading a tag moves it forward, so
\* every iteration of the tag-spec loop that does not return advances it.
C12_Terminates ==
    /\ <>Returned
    /\ [][ /\ (pc = "value" /\ pc' = "value") => l'.pos > l.pos
           /\ (pc \in LexPcs /\ pc' \in LexPcs) => l'.pos >= l.pos
           /\ (pc = "tag" /\ pc' = "tagged") => l'.pos > l.pos
         ]_vars

\* C12 witness: NewTagValue has returned Items for an input with a byte that
\* is no UTF-8 encoding inside a value
C12_Witness ==
    /\ pc = "returned"
    /\ parsed.err = nil
    /\ \E k \in 1..Len(parsed.items.elems) :
           \E i \in 1..Len(parsed.items.elems[k].Value) :
               parsed.items.elems[k].Value[i] = 255

(***************************************************************************)
(* Properties of what NewTagValue returns.                                 *)
(***************************************************************************)
\* tag-spec *( ";" tag-spec )
IsTagSpecList(s) == \A k \in 1..Len(Parts(s, SEMI)) : IsTagSpec(Parts(s, SEMI)[k])

\* s is tag-specs separated by ";", then ";", then optional folding
\* whitespace: that ";" is the last one of s
SemiThenFws(s) ==
    \E k \in 1..Len(s) :
        /\ s[k] = SEMI
        /\ IsOptFWS(SubSeq(s, k + 1, Len(s)))
        /\ IsTagSpecList(SubSeq(s, 1, k - 1))

\* the tag-list before the last ";" of s
BeforeLastSemi(s) ==
    SubSeq(s, 1, Last(Places(s, SEMI)) - 1)

\* C13: the empty input and an input of optional folding whitespace alone
\* give the empty sequence of Items and no error; an input that ends with a
\* ";" after its last tag-spec, optional folding whitespace after it or not,
\* gives no error and every Item collected up to there, one per tag-spec.
C13_EndOfInputAccepted ==
    pc = "returned" =>
        /\ IsOptFWS(l.input) =>
               /\ parsed.err = nil
               /\ parsed.items = ItemSlice(<<>>)
        /\ SemiThenFws(l.input) =>
               /\ parsed.err = nil
               /\ parsed.items = ItemSlice(items)
               /\ Len(items) = Len(Parts(BeforeLastSemi(l.input), SEMI))

\* C13 witness: an input of a tag-spec that ends with ";" and a fold has
\* been parsed
C13_Witness ==
    /\ pc = "returned"
    /\ SemiThenFws(l.input)
    /\ Len(items) = 1
    /\ \E i \in 1..Len(l.input) :
           /\ l.input[i] = SEMI
           /\ SubSeq(l.input, i + 1, Len(l.input)) = CRLF \o <<SP>>

\* "<tag>=<value>;" for every Item, in order
RECURSIVE Serialize(_)
Serialize(its) ==
    IF its = <<>> THEN <<>>
    ELSE Head(its).Tag \o <<EQUALS>> \o Head(its).Value \o <<SEMI>>
         \o Serialize(Tail(its))

\* the (Tag, Value) pairs of a sequence of Items
Pairs(its) == [k \in 1..Len(its) |-> <<its[k].Tag, its[k].Value>>]

\* s without the spaces and tabs at its two ends
Strip(s) == SubSeq(s, LeadLen(s, WSP) + 1, Len(s) - TrailLen(s, WSP))

\* a tag-spec without the spaces and tabs around its name, its first "=" and
\* its value
StripSpec(s) ==
    IF Places(s, EQUALS) = {} THEN Strip(s)
    ELSE Strip(PartNo(s, EQUALS, 1)) \o <<EQUALS>>
         \o Strip(SubSeq(s, PlaceNo(s, EQUALS, 1) + 1, Len(s)))

\* s with the spaces and tabs around names, "=", values and ";" removed, and
\* a ";" after the last tag-spec
RECURSIVE StripSpecs(_)
StripSpecs(parts) ==
    IF parts = <<>> THEN <<>>
    ELSE IF Len(parts) = 1 /\ AllIn(Head(parts), WSP) THEN <<>>
    ELSE StripSpec(Head(parts)) \o <<SEMI>> \o StripSpecs(Tail(parts))
Stripped(s) == StripSpecs(Parts(s, SEMI))

NoFolding(s) == \A c \in 0..(Len(s) - 2) : ~HasPrefixAt(s, c, CRLF)
NoDuplicateTags(its) ==
    \A j, k \in 1..Len(its) : its[j].Tag = its[k].Tag => j = k

\* C14: when an input without CRLF parses into Items of distinct tags, the
\* text "<tag>=<value>;" of the Items in order parses into Items of the same
\* tags and values, and is the input without the spaces and tabs around its
\* names, "=" signs, values and ";", up to a final ";".
C14_RoundTrip ==
    ( /\ pc = "returned"
      /\ parsed.err = nil
      /\ NoFolding(l.input)
      /\ NoDuplicateTags(parsed.items.elems) ) =>
        LET text == Serialize(parsed.items.elems)
            again == NewTagValue(text)
        IN  /\ again.err = nil
            /\ Pairs(again.items.elems) = Pairs(parsed.items.elems)
            /\ text = Stripped(l.input)

\* C14 witness: an input with spaces around the name, the "=" and the value
\* has been parsed into an Item
C14_Witness ==
    /\ pc = "returned"
    /\ parsed.err = nil
    /\ NoFolding(l.input)
    /\ NoDuplicateTags(parsed.items.elems)
    /\ Len(parsed.items.elems) = 1
    /\ Len(l.input) >= Len(Serialize(parsed.items.elems)) + 3

\* C15: on success every byte of every Item.Value is a value character
\* (0x21-0x7E other than ";"), a space, a tab, or the CR or LF of a CRLF; no
\* control character, lone CR or LF, or byte of a non-ASCII character gets
\* into a value.
C15_ValueCharacters ==
    Succeeded =>
        \A k \in 1..Len(parsed.items.elems) :
            LET v == parsed.items.elems[k].Value
            IN  \A i \in 1..Len(v) :
                    \/ v[i] \in VALCHAR \cup WSP
                    \/ v[i] = CR /\ i < Len(v) /\ v[i + 1] = LF
                    \/ v[i] = LF /\ i > 1 /\ v[i - 1] = CR

\* the offset at which the rune last read by next() begins (the length of
\* the input when it was end-of-input)
LastRuneOffset == l.pos - l.width

\* C16: NewTagValue fails with a ParseError exactly when a tag-spec does not
\* start with a letter ("expecting alpha character in tag") or a tag name is
\* not followed by "=" ("expecting '='"), and its Pos is the offset at which
\* the offending character begins, end-of-input counting as a character that
\* begins at the length of the input.
C16_ParseErrorPosition ==
    (pc = "returned" /\ parsed.err.typ = "ParseError") =>
        /\ parsed.err.Message \in {ExpectingAlpha, ExpectingEquals}
        /\ parsed.err.Message = ExpectingAlpha =>
               /\ l.width > 0
               /\ l.input[LastRuneOffset + 1] \notin ALPHA
        /\ parsed.err.Message = ExpectingEquals =>
               (l.width = 0 \/ l.input[LastRuneOffset + 1] # EQUALS)
        /\ parsed.err.Pos = LastRuneOffset

(***************************************************************************)
(* The text of the annotations of H.                                       *)
(***************************************************************************)
\* the bytes of MsgUnknownHash and of MsgSha1
UnknownHashText ==
    <<38, 35, 51, 57, 59, 37, 33, 115, 40, 77, 73, 83, 83, 73, 78, 71, 41,
    38, 35, 51, 57, 59, 32, 105, 115, 110, 38, 35, 51, 57, 59, 116, 32, 97,
    32, 104, 97, 115, 104, 32, 116, 121, 112, 101, 32, 73, 32, 114, 101, 99,
    111, 103, 110, 105, 122, 101>>
Sha1Text ==
    <<83, 72, 65, 49, 32, 105, 115, 32, 60, 97, 32, 104, 114, 101, 102, 61,
    34, 47, 114, 102, 99, 47, 56, 51, 48, 49, 35, 115, 101, 99, 116, 105,
    111, 110, 45, 51, 46, 49, 34, 62, 110, 111, 116, 32, 97, 32, 116, 114,
    117, 115, 116, 101, 100, 32, 104, 97, 115, 104, 60, 47, 97, 62, 44, 32,
    109, 97, 105, 108, 32, 117, 115, 105, 110, 103, 32, 105, 116, 32, 109,
    97, 121, 32, 102, 97, 105, 108, 32, 68, 75, 73, 77, 32, 110, 111, 119,
    32, 111, 114, 32, 105, 110, 32, 116, 104, 101, 32, 102, 117, 116, 117,
    114, 101>>

\* the bytes of an annotation message of H
Text(message) == IF message = MsgSha1 THEN Sha1Text ELSE UnknownHashText

\* token occurs in text
Contains(text, token) ==
    \E i \in 0..(Len(text) - Len(token)) : SubSeq(text, i + 1, i + Len(token)) = token

\* C17: for every colon-separated token of h that is neither "sha256" nor
\* "sha1", the message of the warning H carries for it contains the token.
C17_UnknownHashNamed ==
    (Validated /\ ret.H.Defined) =>
        LET other == SelectSeq(Tokens(ret.H.Item.Value), NotSha256)
        IN  /\ Len(ret.H.Errors) = Len(other)
            /\ \A j \in 1..Len(other) :
                   other[j] # Sha1 =>
                       /\ ret.H.Errors[j].Severity = "warning"
                       /\ Contains(Text(ret.H.Errors[j].Message), other[j])

\* the offset at which the rune last returned by next() begins: next() left
\* the cursor behind it, and each backup() since then moved it back by width
LastRuneStart == l.pos - l.width + l.backups * l.width

\* C18: in every state of the lexer, 0 <= start <= pos <= len(input), and
\* width is the byte width of the rune next() returned last, 0 when that was
\* end-of-input (and before the first call).
C18_CursorInvariant ==
    /\ 0 <= l.start
    /\ l.start <= l.pos
    /\ l.pos <= Len(l.input)
    /\ IF l.width = 0
       THEN LastRuneStart = Len(l.input) \/ l = NewLexer(l.input)
       ELSE /\ LastRuneStart \in 0..(Len(l.input) - 1)
            /\ DecodeRune(l.input, LastRuneStart).width = l.width

\* C19: on success every Item has a non-empty Tag that starts with a letter
\* and is made of letters, digits and "_"; Tag and Value are the input text
\* at TagPos and ValuePos; TagPos + len(Tag) < ValuePos <= len(input); and
\* the next Item's TagPos is past the end of this Item's Value, so spans do
\* not overlap and TagPos increases strictly.
C19_ItemSpans ==
    Succeeded =>
        LET its == parsed.items.elems
            s == l.input
        IN  /\ \A k \in 1..Len(its) :
                   /\ its[k].Tag # <<>>
                   /\ its[k].Tag[1] \in ALPHA
                   /\ AllIn(its[k].Tag, ALNUMPUNC)
                   /\ its[k].TagPos >= 0
                   /\ its[k].Tag = Slice(s, its[k].TagPos, its[k].TagPos + Len(its[k].Tag))
                   /\ its[k].Value = Slice(s, its[k].ValuePos, its[k].ValuePos + Len(its[k].Value))
                   /\ its[k].TagPos + Len(its[k].Tag) < its[k].ValuePos
                   /\ its[k].ValuePos <= Len(s)
                   /\ its[k].ValuePos + Len(its[k].Value) <= Len(s)
            /\ \A k \in 1..(Len(its) - 1) :
                   /\ its[k].ValuePos + Len(its[k].Value) < its[k + 1].TagPos
                   /\ its[k].TagPos < its[k + 1].TagPos

\* C19 witness: two Items have been returned, the second with whitespace
\* before its tag and a non-empty value
C19_Witness ==
    /\ Succeeded
    /\ Len(parsed.items.elems) = 2
    /\ parsed.items.elems[2].TagPos > parsed.items.elems[1].ValuePos + Len(parsed.items.elems[1].Value) + 1
    /\ parsed.items.elems[2].Value # <<>>

=============================================================================
